---- MODULE Spec2Model ----
(***************************************************************************)
(* safedotenv (src/main.go): scan a directory tree for .env /              *)
(* .env-encrypted files and encrypt or decrypt each of them in its own     *)
(* goroutine with AES-CBC and PKCS7 padding.                               *)
(*                                                                         *)
(* Strings (paths, file names) are sequences of one-character strings, so  *)
(* that Go's string concatenation and slicing are \o and SubSeq.  File     *)
(* contents, keys and IVs are sequences of bytes (0..255).                 *)
(***************************************************************************)
EXTENDS Integers, Sequences, FiniteSets, TLC

VARIABLES
    fs,         \* the file system: path -> node
    runs,       \* invocations of main() started so far
    pc,         \* position of main()
    encrypt,    \* the --encrypt flag of the running invocation
    key,        \* key returned by getPassphrase
    stack,      \* getDotenvPaths: directories still to read
    filePaths,  \* getDotenvPaths: result so far, then the batch's paths
    visited,    \* directories popped by getDotenvPaths, in order
    tasks,      \* goroutines spawned by processDotenvFiles
    wg,         \* sync.WaitGroup counter
    channel,    \* buffered values of the error channel
    closed,     \* close(channel) was called
    received,   \* values main took from the channel, in order
    logged,     \* errors written by log.Println("Error:", err)
    sealed      \* history: what encryptFile last wrote, per output path

vars == <<fs, runs, pc, encrypt, key, stack, filePaths, visited, tasks, wg,
          channel, closed, received, logged, sealed>>

-----------------------------------------------------------------------------
(* Bounds of the model *)

\* longest plaintext / raw file content placed in the initial file system
MaxLen == 33

\* invocations of main() in one behaviour (encrypt, then decrypt)
MaxRuns == 2

-----------------------------------------------------------------------------
(* Program constants *)

BlockSize == 16

KeyLen == 32

SuffixEncrypted == <<"-", "e", "n", "c", "r", "y", "p", "t", "e", "d">>

DotEnv == <<".", "e", "n", "v">>

DotEnvEncrypted ==
    <<".", "e", "n", "v", "-", "e", "n", "c", "r", "y", "p", "t", "e", "d">>

Slash == <<"/">>

-----------------------------------------------------------------------------
(* Bytes *)

RECURSIVE XorBits(_, _)
XorBits(a, b) ==
    IF a = 0 /\ b = 0 THEN 0
    ELSE (((a % 2) + (b % 2)) % 2) + 2 * XorBits(a \div 2, b \div 2)

\* bitwise exclusive or of two bytes, tabulated
XorTable == [a \in 0..255 |-> [b \in 0..255 |-> XorBits(a, b)]]

Xor(a, b) == XorTable[a][b]

XorBlock(x, y) == [i \in 1..BlockSize |-> Xor(x[i], y[i])]

Repeat(b, n) == [i \in 1..n |-> b]

Tail16(s) == SubSeq(s, BlockSize + 1, Len(s))

-----------------------------------------------------------------------------
(* Key derivation and the block cipher (library code, modelled as a keyed  *)
(* permutation of 16-byte blocks)                                          *)

RECURSIVE SumBytes(_)
SumBytes(s) == IF s = <<>> THEN 0 ELSE Head(s) + SumBytes(Tail(s))

\* pbkdf2.Key(passphrase, "somesalt", 4096, 32, sha256.New): deterministic,
\* 32 bytes
DeriveKey(passphrase) ==
    [i \in 1..KeyLen |-> ((SumBytes(passphrase) * 31) + (i * 17)) % 256]

\* aes.NewCipher accepts keys of 16, 24 or 32 bytes
NewCipherOk(k) == Len(k) \in {16, 24, 32}

EncryptBlock(k, b) ==
    [i \in 1..BlockSize |-> (b[(i % BlockSize) + 1] + k[i] + k[i + 16]) % 256]

DecryptBlock(k, c) ==
    [j \in 1..BlockSize |->
        LET i == ((j + BlockSize - 2) % BlockSize) + 1
        IN  (c[i] + 512 - k[i] - k[i + 16]) % 256]

\* cipher.NewCBCEncrypter(block, iv).CryptBlocks(dst, src); each ciphertext
\* block c is bound by a set, so that it is evaluated once and chained
RECURSIVE CBCEncrypt(_, _, _)
CBCEncrypt(k, prev, src) ==
    IF src = <<>> THEN <<>>
    ELSE CHOOSE dst \in
             { c \o CBCEncrypt(k, c, Tail16(src)) :
                 c \in {EncryptBlock(k, XorBlock(SubSeq(src, 1, BlockSize),
                                                 prev))} } : TRUE

\* cipher.NewCBCDecrypter(block, iv).CryptBlocks(dst, src)
RECURSIVE CBCDecrypt(_, _, _)
CBCDecrypt(k, prev, src) ==
    IF src = <<>> THEN <<>>
    ELSE LET c == SubSeq(src, 1, BlockSize)
         IN  XorBlock(DecryptBlock(k, c), prev) \o CBCDecrypt(k, c, Tail16(src))

-----------------------------------------------------------------------------
(* Padding *)

\* variant: no pad block when the length is a multiple of the block size
pkcs7PadLenNoFullBlock(data, blockSize) ==
    (blockSize - (Len(data) % blockSize)) % blockSize

pkcs7PadLen(data, blockSize) == blockSize - (Len(data) % blockSize)

\* variant: zero bytes as padding
pkcs7PadZeros(data, blockSize) ==
    data \o Repeat(0, pkcs7PadLen(data, blockSize))

pkcs7Pad(data, blockSize) ==
    LET padLen == pkcs7PadLen(data, blockSize)
    IN  data \o Repeat(padLen % 256, padLen)

\* error of pkcs7Unpad: TRUE when it returns io.ErrUnexpectedEOF
pkcs7UnpadErr(data) ==
    \/ Len(data) = 0
    \/ data[Len(data)] > Len(data)

\* value of pkcs7Unpad when it returns no error
pkcs7Unpad(data) == SubSeq(data, 1, Len(data) - data[Len(data)])

-----------------------------------------------------------------------------
(* Errors *)

NoPath == <<>>

Nil == [kind |-> "nil", path |-> NoPath]

ErrUnexpectedEOF == [kind |-> "unexpected EOF", path |-> NoPath]

KeySizeError == [kind |-> "invalid key size", path |-> NoPath]

\* *fs.PathError of os.ReadFile / os.WriteFile
PathError(p) == [kind |-> "PathError", path |-> p]

-----------------------------------------------------------------------------
(* File system *)

Dir(readable) == [dir |-> TRUE, r |-> readable, w |-> readable, data |-> <<>>]

File(bytes) == [dir |-> FALSE, r |-> TRUE, w |-> TRUE, data |-> bytes]

Locked(bytes) == [dir |-> FALSE, r |-> FALSE, w |-> FALSE, data |-> bytes]

Join(d, name) == d \o Slash \o name

\* os.ReadFile(p) succeeds
ReadFileOk(f, p) == p \in DOMAIN f /\ ~f[p].dir /\ f[p].r

\* os.WriteFile(p, _, 0644) succeeds: p is created, or is a writable file
WriteFileOk(f, p) == p \notin DOMAIN f \/ (~f[p].dir /\ f[p].w)

\* the file system after a successful os.WriteFile(p, bytes, 0644)
WriteFile(f, p, bytes) ==
    [q \in DOMAIN f \cup {p} |->
        IF q = p
        THEN IF p \in DOMAIN f THEN [f[p] EXCEPT !.data = bytes]
             ELSE File(bytes)
        ELSE f[q]]

-----------------------------------------------------------------------------
(* Initial file systems *)

Root == <<"a">>

SubB == <<"b">>

SubC == <<"c">>

Notes == <<"n", "o", "t", "e", "s", ".", "t", "x", "t">>

\* the names used in the tree, in the byte order os.ReadDir sorts them by
SortedNames == <<DotEnv, DotEnvEncrypted, SubB, SubC, Notes>>

Passphrases == {<<112>>, <<113, 119>>}

\* values rand.Read may fill the IV with
IVs == {Repeat(0, BlockSize), [i \in 1..BlockSize |-> (i * 29) % 256]}

Fill(n, b) == [i \in 1..n |-> b]

\* plaintexts: every length up to MaxLen, filled with a byte that is no pad
\* value (65), the pad values 1 and 16, or 0
Plaintexts == {Fill(n, b) : n \in 0..MaxLen, b \in {0, 1, BlockSize, 65}}

FewPlaintexts == {Fill(0, 0), Fill(BlockSize, BlockSize)}

\* an envelope as encryptFile writes it
Seal(passphrase, iv, plaintext) ==
    iv \o CBCEncrypt(DeriveKey(passphrase), iv, pkcs7Pad(plaintext, BlockSize))

\* an envelope whose decryption under the passphrase is the given block-aligned
\* byte sequence
Forge(passphrase, iv, padded) ==
    iv \o CBCEncrypt(DeriveKey(passphrase), iv, padded)

Garbage(n) == [i \in 1..n |-> (i * 37) % 256]

\* block-aligned byte sequences that do not end in a pad: final byte 0, final
\* byte above 16 and below the length, final byte above the length, final
\* byte 3 after bytes other than 3
BadPadded ==
    { Fill(BlockSize, 0),
      Fill(2 * BlockSize, 20),
      Fill(BlockSize, 200),
      Fill(BlockSize - 1, 7) \o <<3>> }

Envelopes ==
    {Garbage(n) : n \in 0..MaxLen}
    \cup {Forge(<<112>>, Repeat(0, BlockSize), x) : x \in BadPadded}
    \cup {Seal(<<112>>, Repeat(0, BlockSize), x) : x \in FewPlaintexts}

\* the contents of the files of the trees with several candidate files
TreePlain == Fill(BlockSize, BlockSize)

TreeEnvelope == Seal(<<112>>, Repeat(0, BlockSize), Fill(3, 65))

Truncate(bytes) == SubSeq(bytes, 1, Len(bytes) - 1)

Profiles ==
    {"empty", "plain", "enc", "trunc", "both", "locked", "envdir", "encdir",
     "noperm"}

\* the entries of directory d under a profile, as <<path, node>> pairs
Entries(d, profile, P, E) ==
    {<<d, Dir(profile # "noperm")>>}
    \cup (CASE profile = "plain" ->
                 {<<Join(d, DotEnv), File(P)>>, <<Join(d, Notes), File(P)>>}
            [] profile = "enc" ->
                 {<<Join(d, DotEnvEncrypted), File(E)>>}
            [] profile = "trunc" ->
                 {<<Join(d, DotEnvEncrypted), File(Truncate(E))>>}
            [] profile = "both" ->
                 {<<Join(d, DotEnv), File(P)>>,
                  <<Join(d, DotEnvEncrypted), File(E)>>,
                  <<Join(d, Notes), File(E)>>}
            [] profile = "locked" ->
                 {<<Join(d, DotEnv), Locked(P)>>,
                  <<Join(d, DotEnvEncrypted), Locked(E)>>}
            [] profile = "envdir" ->
                 {<<Join(d, DotEnv), Dir(TRUE)>>,
                  <<Join(Join(d, DotEnv), DotEnvEncrypted), File(E)>>,
                  <<Join(d, DotEnvEncrypted), File(E)>>}
            [] profile = "encdir" ->
                 {<<Join(d, DotEnv), File(P)>>,
                  <<Join(d, DotEnvEncrypted), Dir(TRUE)>>,
                  <<Join(Join(d, DotEnvEncrypted), DotEnv), File(P)>>}
            [] OTHER -> {})

\* the tree a, a/b, a/c with one profile per directory
BuildFs(pa, pb, pcc, P, E) ==
    LET all == Entries(Root, pa, P, E)
               \cup Entries(Join(Root, SubB), pb, P, E)
               \cup Entries(Join(Root, SubC), pcc, P, E)
    IN  [p \in {e[1] : e \in all} |-> (CHOOSE e \in all : e[1] = p)[2]]

\* trees with several candidate files: one profile for each of a, a/b, a/c
Layouts ==
    { <<"enc", "trunc", "locked">>,
      <<"both", "plain", "empty">>,
      <<"envdir", "encdir", "empty">>,
      <<"plain", "locked", "noperm">> }

InitFs ==
    \/ \E P \in Plaintexts :
           fs = BuildFs("plain", "empty", "empty", P, <<>>)
    \/ \E E \in Envelopes :
           fs = BuildFs("enc", "empty", "empty", <<>>, E)
    \/ \E l \in Layouts :
           fs = BuildFs(l[1], l[2], l[3], TreePlain, TreeEnvelope)

Init ==
    /\ InitFs
    /\ runs = 0
    /\ pc = "idle"
    /\ encrypt = FALSE
    /\ key = <<>>
    /\ stack = <<>>
    /\ filePaths = <<>>
    /\ visited = <<>>
    /\ tasks = <<>>
    /\ wg = 0
    /\ channel = <<>>
    /\ closed = FALSE
    /\ received = <<>>
    /\ logged = <<>>
    /\ sealed = {}

-----------------------------------------------------------------------------
(* main and getDotenvPaths *)

\* main up to the first iteration of getDotenvPaths: the flags are parsed,
\* the key is derived from the passphrase, the stack holds the folder
Start(e, passphrase) ==
    /\ pc \in {"idle", "done", "fatal", "panic"}
    /\ runs < MaxRuns
    /\ runs' = runs + 1
    /\ pc' = "scan"
    /\ encrypt' = e
    /\ key' = DeriveKey(passphrase)
    /\ stack' = <<Root>>
    /\ filePaths' = <<>>
    /\ visited' = <<>>
    /\ tasks' = <<>>
    /\ wg' = 0
    /\ channel' = <<>>
    /\ closed' = FALSE
    /\ received' = <<>>
    /\ logged' = <<>>
    /\ UNCHANGED <<fs, sealed>>

\* os.ReadDir(d) succeeds
ReadDirOk(f, d) == d \in DOMAIN f /\ f[d].dir /\ f[d].r

\* os.ReadDir(d): the names of the entries of d, sorted
ReadDir(f, d) == SelectSeq(SortedNames, LAMBDA n : Join(d, n) \in DOMAIN f)

\* variant: both markers are taken in either mode
IsCandidateEitherMarker(name, enc) ==
    name = DotEnv \/ name = DotEnvEncrypted

\* the two else-if conditions under which a non-directory entry is appended
IsCandidate(name, enc) ==
    \/ name = DotEnv /\ enc = TRUE
    \/ name = DotEnvEncrypted /\ enc = FALSE

\* the loop over the entries of currentDir; acc is <<stack, filePaths>>
RECURSIVE ScanEntries(_, _, _, _, _)
ScanEntries(f, currentDir, files, enc, acc) ==
    IF files = <<>> THEN acc
    ELSE LET name == Head(files)
             path == Join(currentDir, name)
             next ==
                 IF f[path].dir
                 THEN <<Append(acc[1], path), acc[2]>>
                 ELSE IF IsCandidate(name, enc)
                 THEN <<acc[1], Append(acc[2], path)>>
                 ELSE acc
         IN  ScanEntries(f, currentDir, Tail(files), enc, next)

\* one iteration of the stack loop of getDotenvPaths
ScanStep ==
    /\ pc = "scan"
    /\ stack # <<>>
    /\ LET currentDir == stack[Len(stack)]
           popped == SubSeq(stack, 1, Len(stack) - 1)
       IN  /\ ReadDirOk(fs, currentDir)
           /\ LET res == ScanEntries(fs, currentDir, ReadDir(fs, currentDir),
                                     encrypt, <<popped, filePaths>>)
              IN  /\ stack' = res[1]
                  /\ filePaths' = res[2]
           /\ visited' = Append(visited, currentDir)
    /\ UNCHANGED <<fs, runs, pc, encrypt, key, tasks, wg, channel, closed,
                   received, logged, sealed>>

\* os.ReadDir fails: log.Fatal ends the process
ScanFatal ==
    /\ pc = "scan"
    /\ stack # <<>>
    /\ ~ReadDirOk(fs, stack[Len(stack)])
    /\ pc' = "fatal"
    /\ UNCHANGED <<fs, runs, encrypt, key, stack, filePaths, visited, tasks,
                   wg, channel, closed, received, logged, sealed>>

\* the stack is empty: getDotenvPaths returns and processDotenvFiles makes
\* the WaitGroup and the channel
ScanReturn ==
    /\ pc = "scan"
    /\ stack = <<>>
    /\ pc' = "spawn"
    /\ wg' = 0
    /\ channel' = <<>>
    /\ closed' = FALSE
    /\ UNCHANGED <<fs, runs, encrypt, key, stack, filePaths, visited, tasks,
                   received, logged, sealed>>

-----------------------------------------------------------------------------
(* encryptFile and decryptFile after os.ReadFile has returned the content *)

\* the output path of encryptFile
EncryptedPath(inputPath) == inputPath \o SuffixEncrypted

\* variant: the suffix is not stripped
DecryptedPathKeepsSuffix(inputPath) == inputPath

\* the output path of decryptFile
DecryptedPath(inputPath) ==
    SubSeq(inputPath, 1, Len(inputPath) - Len(SuffixEncrypted))

\* how a call ends: it returns err, or it panics; mid, out, outputPath are
\* its local values, wrote tells that os.WriteFile succeeded, fs is the file
\* system it leaves
Returned(err, mid, out, outputPath, wrote, f) ==
    [panic |-> FALSE, err |-> err, mid |-> mid, out |-> out,
     outputPath |-> outputPath, wrote |-> wrote, fs |-> f]

Panicked(f) ==
    [panic |-> TRUE, err |-> Nil, mid |-> <<>>, out |-> <<>>,
     outputPath |-> NoPath, wrote |-> FALSE, fs |-> f]

\* os.WriteFile(outputPath, out, 0644) and the return of its error
WriteAndReturn(f, mid, out, outputPath) ==
    IF WriteFileOk(f, outputPath)
    THEN Returned(Nil, mid, out, outputPath, TRUE,
                  WriteFile(f, outputPath, out))
    ELSE Returned(PathError(outputPath), mid, out, outputPath, FALSE, f)

encryptFile(f, inputPath, plaintext, k, iv) ==
    IF ~NewCipherOk(k)
    THEN Returned(KeySizeError, <<>>, <<>>, NoPath, FALSE, f)
    ELSE LET padded == pkcs7Pad(plaintext, BlockSize)
             ciphertext == CBCEncrypt(k, iv, padded)
             out == iv \o ciphertext
         IN  WriteAndReturn(f, padded, out, EncryptedPath(inputPath))

\* len(data) < aes.BlockSize
TooShort(data) == Len(data) < BlockSize

\* variant: the alignment of the ciphertext is not checked
MisalignedUnchecked(ciphertext) == FALSE

\* len(ciphertext)%aes.BlockSize != 0
Misaligned(ciphertext) == Len(ciphertext) % BlockSize # 0

decryptFile(f, inputPath, data, k) ==
    LET iv == SubSeq(data, 1, BlockSize)
        ciphertext == Tail16(data)
        plaintext == CBCDecrypt(k, iv, ciphertext)
    IN  IF TooShort(data)
        THEN Returned(ErrUnexpectedEOF, <<>>, <<>>, NoPath, FALSE, f)
        ELSE IF ~NewCipherOk(k)
        THEN Returned(KeySizeError, <<>>, <<>>, NoPath, FALSE, f)
        ELSE IF Misaligned(ciphertext)
        THEN Returned(ErrUnexpectedEOF, <<>>, <<>>, NoPath, FALSE, f)
        ELSE IF Len(ciphertext) % BlockSize # 0
        THEN Panicked(f)   \* CryptBlocks: "input not full blocks"
        ELSE IF pkcs7UnpadErr(plaintext)
        THEN Returned(ErrUnexpectedEOF, plaintext, <<>>, NoPath, FALSE, f)
        ELSE WriteAndReturn(f, plaintext, pkcs7Unpad(plaintext),
                            DecryptedPath(inputPath))

-----------------------------------------------------------------------------
(* processDotenvFiles *)

\* variant: an unbuffered channel
ChannelCapUnbuffered(paths) == 0

\* capacity of make(chan error, len(filePaths))
ChannelCap(paths) == Len(paths)

\* variant: the goroutines share the loop variable and see its last value
TaskPathShared(paths, i) == paths[Len(paths)]

\* the path the goroutine of the i-th loop iteration receives as argument
TaskPath(paths, i) == paths[i]

NewTask(path) ==
    [path |-> path, pc |-> "call", data |-> <<>>, mid |-> <<>>,
     out |-> <<>>, outputPath |-> NoPath, wrote |-> FALSE, err |-> Nil]

\* goroutines run while main is inside processDotenvFiles
Running == pc \in {"spawn", "collect"}

\* one loop iteration: wg.Add(1) and the go statement
Spawn ==
    /\ pc = "spawn"
    /\ Len(tasks) < Len(filePaths)
    /\ wg' = wg + 1
    /\ tasks' = Append(tasks, NewTask(TaskPath(filePaths, Len(tasks) + 1)))
    /\ UNCHANGED <<fs, runs, pc, encrypt, key, stack, filePaths, visited,
                   channel, closed, received, logged, sealed>>

\* os.ReadFile(inputPath) of encryptFile and of decryptFile
TaskRead(t) ==
    /\ Running
    /\ tasks[t].pc = "call"
    /\ IF ReadFileOk(fs, tasks[t].path)
       THEN tasks' = [tasks EXCEPT ![t].pc = "crypt",
                                   ![t].data = fs[tasks[t].path].data]
       ELSE tasks' = [tasks EXCEPT ![t].pc = "send",
                                   ![t].err = PathError(tasks[t].path)]
    /\ UNCHANGED <<fs, runs, pc, encrypt, key, stack, filePaths, visited, wg,
                   channel, closed, received, logged, sealed>>

\* the task and main after the call of task t ended as res
AfterCall(t, res) ==
    /\ tasks' = [tasks EXCEPT ![t] =
           [path |-> tasks[t].path,
            pc |-> IF res.panic THEN "panic" ELSE "send",
            data |-> tasks[t].data,
            mid |-> res.mid,
            out |-> res.out,
            outputPath |-> res.outputPath,
            wrote |-> res.wrote,
            err |-> res.err]]
    /\ pc' = IF res.panic THEN "panic" ELSE pc
    /\ fs' = res.fs

\* the rest of encryptFile in the goroutine of task t
TaskEncrypt(t) ==
    /\ Running
    /\ tasks[t].pc = "crypt"
    /\ encrypt
    /\ \E iv \in IVs :
         \E res \in {encryptFile(fs, tasks[t].path, tasks[t].data, key, iv)} :
             /\ AfterCall(t, res)
             /\ sealed' =
                  IF res.wrote
                  THEN {x \in sealed : x.path # res.outputPath}
                       \cup {[path |-> res.outputPath,
                              input |-> tasks[t].path,
                              plaintext |-> tasks[t].data,
                              key |-> key]}
                  ELSE sealed
    /\ UNCHANGED <<runs, encrypt, key, stack, filePaths, visited, wg,
                   channel, closed, received, logged>>

\* the rest of decryptFile in the goroutine of task t
TaskDecrypt(t) ==
    /\ Running
    /\ tasks[t].pc = "crypt"
    /\ ~encrypt
    /\ \E res \in {decryptFile(fs, tasks[t].path, tasks[t].data, key)} :
           /\ AfterCall(t, res)
           /\ sealed' = IF res.wrote
                        THEN {x \in sealed : x.path # res.outputPath}
                        ELSE sealed
    /\ UNCHANGED <<runs, encrypt, key, stack, filePaths, visited, wg,
                   channel, closed, received, logged>>

\* channel <- err: blocks while the buffer is full, panics on a closed
\* channel; "from" is history, the channel carries the error alone
TaskSend(t) ==
    /\ Running
    /\ tasks[t].pc = "send"
    /\ IF closed
       THEN /\ pc' = "panic"
            /\ tasks' = [tasks EXCEPT ![t].pc = "panic"]
            /\ UNCHANGED channel
       ELSE /\ Len(channel) < ChannelCap(filePaths)
            /\ channel' = Append(channel, [err |-> tasks[t].err, from |-> t])
            /\ tasks' = [tasks EXCEPT ![t].pc = "exit"]
            /\ UNCHANGED pc
    /\ UNCHANGED <<fs, runs, encrypt, key, stack, filePaths, visited, wg,
                   closed, received, logged, sealed>>

\* the deferred wg.Done()
TaskDone(t) ==
    /\ Running
    /\ tasks[t].pc = "exit"
    /\ wg' = wg - 1
    /\ tasks' = [tasks EXCEPT ![t].pc = "done"]
    /\ UNCHANGED <<fs, runs, pc, encrypt, key, stack, filePaths, visited,
                   channel, closed, received, logged, sealed>>

\* variant: main does not wait
WaitReturnsAtOnce(counter) == TRUE

\* wg.Wait() returns
WaitReturns(counter) == counter = 0

\* the loop has ended and wg.Wait() returns; close(channel)
WaitClose ==
    /\ pc = "spawn"
    /\ Len(tasks) = Len(filePaths)
    /\ WaitReturns(wg)
    /\ closed' = TRUE
    /\ pc' = "collect"
    /\ UNCHANGED <<fs, runs, encrypt, key, stack, filePaths, visited, tasks,
                   wg, channel, received, logged, sealed>>

\* one iteration of "for err := range channel"
Collect ==
    /\ pc = "collect"
    /\ channel # <<>>
    /\ received' = Append(received, Head(channel))
    /\ channel' = Tail(channel)
    /\ logged' = IF Head(channel).err # Nil
                 THEN Append(logged, Head(channel).err)
                 ELSE logged
    /\ UNCHANGED <<fs, runs, pc, encrypt, key, stack, filePaths, visited,
                   tasks, wg, closed, sealed>>

\* the channel is closed and empty: the range loop ends, main logs "Done."
Finish ==
    /\ pc = "collect"
    /\ channel = <<>>
    /\ closed
    /\ pc' = "done"
    /\ UNCHANGED <<fs, runs, encrypt, key, stack, filePaths, visited, tasks,
                   wg, channel, closed, received, logged, sealed>>

-----------------------------------------------------------------------------

Next ==
    \/ \E e \in BOOLEAN, passphrase \in Passphrases : Start(e, passphrase)
    \/ ScanStep
    \/ ScanFatal
    \/ ScanReturn
    \/ Spawn
    \/ \E t \in 1..Len(tasks) : TaskRead(t)
    \/ \E t \in 1..Len(tasks) : TaskEncrypt(t)
    \/ \E t \in 1..Len(tasks) : TaskDecrypt(t)
    \/ \E t \in 1..Len(tasks) : TaskSend(t)
    \/ \E t \in 1..Len(tasks) : TaskDone(t)
    \/ WaitClose
    \/ Collect
    \/ Finish

Spec == Init /\ [][Next]_vars

\* every step of a started invocation; the Go scheduler runs every goroutine
\* that can run, only the start of another invocation is left to the user
Run ==
    \/ ScanStep
    \/ ScanFatal
    \/ ScanReturn
    \/ Spawn
    \/ \E t \in 1..Len(tasks) : TaskRead(t)
    \/ \E t \in 1..Len(tasks) : TaskEncrypt(t)
    \/ \E t \in 1..Len(tasks) : TaskDecrypt(t)
    \/ \E t \in 1..Len(tasks) : TaskSend(t)
    \/ \E t \in 1..Len(tasks) : TaskDone(t)
    \/ WaitClose
    \/ Collect
    \/ Finish

FairSpec == Spec /\ WF_vars(Run)

TypeOK ==
    /\ pc \in {"idle", "scan", "fatal", "spawn", "collect", "done"}
    /\ \A t \in 1..Len(tasks) : tasks[t].pc # "panic"
    /\ runs \in 0..MaxRuns
    /\ wg \in 0..Len(filePaths)
    /\ Len(channel) <= Len(filePaths)

-----------------------------------------------------------------------------
(* Properties *)

TaskIds == 1..Len(tasks)

\* the call of encryptFile / decryptFile of task t has returned
Called(t) == tasks[t].pc \in {"send", "exit", "done"}

\* C1: round trip.  When decryptFile has run on a file that encryptFile
\* wrote from plaintext P at path X, with the same key, it returned no error,
\* its output path is X and X holds exactly P.
RoundTrip ==
    \A t \in TaskIds, x \in sealed :
        (~encrypt /\ Called(t) /\ x.path = tasks[t].path /\ x.key = key)
        => /\ tasks[t].err = Nil
           /\ tasks[t].outputPath = x.input
           /\ fs[x.input].data = x.plaintext

RoundTripWitness ==
    \E t \in TaskIds, x \in sealed :
        /\ ~encrypt /\ pc = "done" /\ tasks[t].pc = "done"
        /\ x.path = tasks[t].path /\ x.key = key
        /\ Len(x.plaintext) = 2 * BlockSize
        /\ fs[x.input].data = x.plaintext

\* C6: padding and envelope shape.  For a plaintext of length L the padded
\* data is the plaintext followed by N bytes of value N, N = 16 - (L mod 16),
\* 1 <= N <= 16, and a written envelope has length 16 + C with C a positive
\* multiple of 16.
PaddingShape ==
    \A t \in TaskIds :
        (encrypt /\ Called(t) /\ tasks[t].outputPath # NoPath)
        => LET L == Len(tasks[t].data)
               N == 16 - (L % 16)
               padded == tasks[t].mid
           IN  /\ N \in 1..16
               /\ Len(padded) = L + N
               /\ SubSeq(padded, 1, L) = tasks[t].data
               /\ \A i \in (L + 1)..(L + N) : padded[i] = N
               /\ Len(tasks[t].out) = 16 + Len(padded)
               /\ Len(padded) > 0
               /\ Len(padded) % 16 = 0
               /\ tasks[t].wrote
                  => fs[tasks[t].outputPath].data = tasks[t].out

PaddingShapeWitness ==
    \E t \in TaskIds :
        /\ encrypt /\ tasks[t].pc = "done" /\ tasks[t].wrote
        /\ Len(tasks[t].data) = 16
        /\ Len(fs[tasks[t].outputPath].data) = 48

MalformedData(data) == Len(data) < 16 \/ (Len(data) - 16) % 16 # 0

\* C4: malformed envelopes.  The step of decryptFile after the read, on
\* content shorter than 16 bytes or with a length that is not a multiple of
\* 16 after the IV, returns an error and leaves the file system unchanged.
MalformedRejected ==
    [][\A t \in TaskIds :
          (Running /\ ~encrypt /\ tasks[t].pc = "crypt"
           /\ MalformedData(tasks[t].data) /\ tasks'[t].pc # "crypt")
          => /\ tasks'[t].pc = "send"
             /\ tasks'[t].err # Nil
             /\ ~tasks'[t].wrote
             /\ fs' = fs]_vars

MalformedRejectedWitness ==
    \E t \in TaskIds :
        /\ ~encrypt /\ tasks[t].pc = "done"
        /\ Len(tasks[t].data) > 16
        /\ (Len(tasks[t].data) - 16) % 16 # 0
        /\ tasks[t].err = ErrUnexpectedEOF

\* the last byte N of d is in 1..16 and d ends in N bytes of value N
ValidPad(d) ==
    /\ Len(d) > 0
    /\ LET n == d[Len(d)]
       IN  /\ n \in 1..16
           /\ n <= Len(d)
           /\ \A i \in (Len(d) - n + 1)..Len(d) : d[i] = n

\* C10: invalid padding.  When the decrypted data does not end in a valid
\* pad, decryptFile returns an error and writes no output.
InvalidPaddingRejected ==
    \A t \in TaskIds :
        (~encrypt /\ Called(t) /\ tasks[t].mid # <<>>
         /\ ~ValidPad(tasks[t].mid))
        => (tasks[t].err # Nil /\ ~tasks[t].wrote)

\* p names an entry called name: p ends in "/" followed by name
Named(p, name) ==
    /\ Len(p) > Len(name)
    /\ SubSeq(p, Len(p) - Len(name) + 1, Len(p)) = name
    /\ p[Len(p) - Len(name)] = "/"

Range(seq) == {seq[i] : i \in 1..Len(seq)}

NoDuplicates(seq) == \A i, j \in 1..Len(seq) : seq[i] = seq[j] => i = j

\* getDotenvPaths has returned and no goroutine exists yet
ScanReturned == pc = "spawn" /\ tasks = <<>>

ScanExact ==
    ScanReturned
    => /\ Range(visited) = {p \in DOMAIN fs : fs[p].dir}
       /\ NoDuplicates(visited)
       /\ NoDuplicates(filePaths)
       /\ encrypt
          => Range(filePaths) =
                 {p \in DOMAIN fs : ~fs[p].dir /\ Named(p, <<".", "e", "n", "v">>)}
       /\ ~encrypt
          => Range(filePaths) =
                 {p \in DOMAIN fs :
                     /\ ~fs[p].dir
                     /\ Named(p, <<".", "e", "n", "v", "-", "e", "n", "c",
                                   "r", "y", "p", "t", "e", "d">>)}

\* C5: scan filtering.  getDotenvPaths terminates (it returns, or a directory
\* is unreadable and log.Fatal ends the process); when it returns it has
\* visited every directory of the tree exactly once and the result holds,
\* once each, exactly the non-directory entries named .env (encrypt) or
\* .env-encrypted (decrypt).
ScanFiltering ==
    /\ []ScanExact
    /\ (pc = "scan") ~> (ScanReturned \/ pc = "fatal")

ScanFilteringWitness ==
    /\ ScanReturned
    /\ encrypt
    /\ Len(filePaths) = 2
    /\ Len(visited) = 3
    /\ \E p \in DOMAIN fs : Named(p, Notes)
    /\ \E p \in DOMAIN fs : ~fs[p].dir /\ Named(p, DotEnvEncrypted)

AllTasksFinished ==
    /\ Len(tasks) = Len(filePaths)
    /\ wg = 0
    /\ \A t \in TaskIds : tasks[t].pc = "done"

\* C3: wait for all, then report.  Whenever main has taken an outcome from
\* the channel or logged an error, or is in the collection loop or past it,
\* every path has its goroutine and every goroutine has sent its outcome and
\* called Done.
ReportAfterAll ==
    (received # <<>> \/ logged # <<>> \/ pc \in {"collect", "done"})
    => AllTasksFinished

ReportAfterAllWitness ==
    /\ pc = "collect"
    /\ Len(tasks) = 3
    /\ Len(received) = 2
    /\ Len(logged) = 1

\* decryptFile fails on the file at path p of file system f
DecryptFails(f, p, k) ==
    \/ ~(p \in DOMAIN f /\ ~f[p].dir /\ f[p].r)
    \/ Len(f[p].data) < 16
    \/ (Len(f[p].data) - 16) % 16 # 0
    \/ LET d == CBCDecrypt(k, SubSeq(f[p].data, 1, 16), Tail16(f[p].data))
       IN  Len(d) = 0 \/ d[Len(d)] > Len(d)
    \/ LET o == SubSeq(p, 1, Len(p) - 10)
       IN  o \in DOMAIN f /\ (f[o].dir \/ ~f[o].w)

\* encryptFile fails on the file at path p of file system f
EncryptFails(f, p) ==
    \/ ~(p \in DOMAIN f /\ ~f[p].dir /\ f[p].r)
    \/ LET o == p \o SuffixEncrypted
       IN  o \in DOMAIN f /\ (f[o].dir \/ ~f[o].w)

Fails(p) == IF encrypt THEN EncryptFails(fs, p) ELSE DecryptFails(fs, p, key)

\* the output of the well-formed file at path p is in place
OutputWritten(p) ==
    IF encrypt
    THEN /\ (p \o SuffixEncrypted) \in DOMAIN fs
         /\ \E iv \in IVs :
              fs[p \o SuffixEncrypted].data =
                  iv \o CBCEncrypt(key, iv, pkcs7Pad(fs[p].data, 16))
    ELSE /\ SubSeq(p, 1, Len(p) - 10) \in DOMAIN fs
         /\ LET d == CBCDecrypt(key, SubSeq(fs[p].data, 1, 16),
                                Tail16(fs[p].data))
            IN  fs[SubSeq(p, 1, Len(p) - 10)].data
                    = SubSeq(d, 1, Len(d) - d[Len(d)])

ErrorCount == Cardinality({i \in 1..Len(received) : received[i].err # Nil})

FailingCount == Cardinality({i \in 1..Len(filePaths) : Fails(filePaths[i])})

\* C2: per-file isolation.  When the batch is over every goroutine has run
\* to completion, the number of non-nil errors collected is the number of
\* failing files, and every file that does not fail has its output written.
Isolation ==
    pc = "done"
    => /\ AllTasksFinished
       /\ Len(received) = Len(filePaths)
       /\ ErrorCount = FailingCount
       /\ \A i \in 1..Len(filePaths) :
              ~Fails(filePaths[i]) => OutputWritten(filePaths[i])

\* one good, one truncated and one unreadable file in decrypt mode
IsolationWitness ==
    /\ pc = "done"
    /\ ~encrypt
    /\ Len(filePaths) = 3
    /\ ErrorCount = 2
    /\ \E i \in 1..3 : ~ReadFileOk(fs, filePaths[i])
    /\ \E i \in 1..3 : ReadFileOk(fs, filePaths[i])
                       /\ MalformedData(fs[filePaths[i]].data)
    /\ fs[Join(Root, DotEnv)].data = Fill(3, 65)

\* the outcomes sent so far, collected or still buffered
Sent == received \o channel

\* C7: batch completion.  The buffered outcomes never exceed the capacity
\* len(filePaths), each task that has sent has exactly one outcome among those
\* sent, and a launched batch leads to the end of the collection loop with
\* one outcome per path collected.
BatchCompletion ==
    /\ [](Len(channel) <= Len(filePaths))
    /\ [](\A t \in TaskIds :
            Cardinality({i \in 1..Len(Sent) : Sent[i].from = t})
                = IF tasks[t].pc \in {"exit", "done"} THEN 1 ELSE 0)
    /\ (pc = "spawn")
         ~> (pc = "done" /\ channel = <<>>
             /\ Len(received) = Len(filePaths)
             /\ {received[i].from : i \in 1..Len(received)}
                    = 1..Len(filePaths))

BatchCompletionWitness ==
    /\ pc = "spawn"
    /\ Len(filePaths) = 3
    /\ Len(channel) = 3
    /\ \E t \in TaskIds : tasks[t].pc = "exit"

\* the path task t writes
OutputOf(t) ==
    IF encrypt
    THEN tasks[t].path \o <<"-", "e", "n", "c", "r", "y", "p", "t", "e", "d">>
    ELSE SubSeq(tasks[t].path, 1, Len(tasks[t].path) - 10)

\* the paths at which step fs -> fs' changes the file system
Changed == {p \in DOMAIN fs' : p \notin DOMAIN fs \/ fs'[p] # fs[p]}

\* C8: no shared file writes.  Distinct tasks have distinct input paths and
\* distinct output paths, no task's output path is another task's input
\* path, and a step changes the file system only at the output path of the
\* one task that takes it.
NoSharedWrites ==
    /\ [](\A t, u \in TaskIds :
            t # u => /\ tasks[t].path # tasks[u].path
                     /\ OutputOf(t) # OutputOf(u)
                     /\ OutputOf(t) # tasks[u].path)
    /\ [](\A t \in TaskIds :
            tasks[t].outputPath # NoPath => tasks[t].outputPath = OutputOf(t))
    /\ [][fs' # fs
          => \E t \in TaskIds :
                /\ tasks[t].pc = "crypt"
                /\ tasks'[t].wrote
                /\ DOMAIN fs \subseteq DOMAIN fs'
                /\ Changed \subseteq {OutputOf(t)}]_vars

NoSharedWritesWitness ==
    /\ pc = "done"
    /\ \E t, u \in TaskIds : t # u /\ tasks[t].wrote /\ tasks[u].wrote

\* C9: result reporting.  Every failure main takes from the channel carries
\* the path of the file whose task produced it.
OutcomeCarriesPath ==
    \A i \in 1..Len(received) :
        received[i].err # Nil
        => received[i].err.path = tasks[received[i].from].path

====
